---- MODULE Spec2Model ----
(***************************************************************************)
(* State-machine model of the windows-spoofer native module:               *)
(*   src/native/windows-spoofer/src/identifier-manager.cc  (WindowsSpoofer)*)
(*   src/native/windows-spoofer/src/api-hooks.cc           (hooks, Detours)*)
(*   src/native/windows-spoofer/src/spoofer.cc             (host bindings) *)
(*                                                                         *)
(* Strings are sequences of one-character strings.  A DWORD is a sequence  *)
(* of 8 hex nibbles, most significant first, so that all 32 bits are kept. *)
(***************************************************************************)
EXTENDS Integers, Sequences, FiniteSets, TLC

(***************************************************************************)
(* Bounds and environment                                                  *)
(***************************************************************************)
\* process ids 1..MaxPid exist in the model
MaxPid == 2
\* the process that loaded the native module (the controlling process)
HostPid == 1
Pids == 1..MaxPid

\* DWORD width in nibbles (unsigned long is 32 bits on _WIN32)
DwordNibbles == 8

(***************************************************************************)
(* Characters and hex digits                                               *)
(***************************************************************************)
HexUpper == <<"0","1","2","3","4","5","6","7","8","9","A","B","C","D","E","F">>
HexLower == <<"0","1","2","3","4","5","6","7","8","9","a","b","c","d","e","f">>

IsHexDigit(c) == \E i \in 1..16 : HexUpper[i] = c \/ HexLower[i] = c
HexDigitVal(c) == (CHOOSE i \in 1..16 : HexUpper[i] = c \/ HexLower[i] = c) - 1
IsSpace(c) == c \in {" ", "\t", "\n"}

(***************************************************************************)
(* std::stoul(str, nullptr, 16): strtoul semantics.  Leading white space   *)
(* is skipped, one sign is accepted, an "0x" prefix is accepted when a hex *)
(* digit follows, then the longest run of hex digits is converted.  No     *)
(* digit: invalid_argument.  Magnitude above ULONG_MAX: out_of_range.      *)
(* Characters after the digit run are ignored (pos is nullptr).            *)
(***************************************************************************)
RECURSIVE SkipSpace(_)
SkipSpace(s) ==
    IF s # <<>> /\ IsSpace(Head(s)) THEN SkipSpace(Tail(s)) ELSE s

RECURSIVE DigitRun(_)
DigitRun(s) ==
    IF s # <<>> /\ IsHexDigit(Head(s))
    THEN <<HexDigitVal(Head(s))>> \o DigitRun(Tail(s))
    ELSE <<>>

RECURSIVE StripZeros(_)
StripZeros(d) ==
    IF d # <<>> /\ Head(d) = 0 THEN StripZeros(Tail(d)) ELSE d

\* the nibble run d (no leading zeros, at most 8 long) as a DWORD
PadDword(d) ==
    [i \in 1..DwordNibbles |->
        IF i <= DwordNibbles - Len(d) THEN 0 ELSE d[i - (DwordNibbles - Len(d))]]

\* unsigned negation modulo 2^32: complement every nibble, add one
RECURSIVE AddOne(_, _)
AddOne(w, i) ==
    IF i = 0 THEN w
    ELSE IF w[i] = 15 THEN AddOne([w EXCEPT ![i] = 0], i - 1)
    ELSE [w EXCEPT ![i] = w[i] + 1]

NegateDword(w) == AddOne([i \in 1..DwordNibbles |-> 15 - w[i]], DwordNibbles)

HasHexPrefix(s) ==
    /\ Len(s) >= 3
    /\ s[1] = "0"
    /\ s[2] \in {"x", "X"}
    /\ IsHexDigit(s[3])

IsNegative(a) == a # <<>> /\ Head(a) = "-"
StripSign(a) == IF a # <<>> /\ Head(a) \in {"+", "-"} THEN Tail(a) ELSE a
StripHexPrefix(b) == IF HasHexPrefix(b) THEN SubSeq(b, 3, Len(b)) ELSE b

\* the value of the significant digits d, or out_of_range
ConvertDigits(neg, d) ==
    IF Len(d) > DwordNibbles THEN [threw |-> TRUE, val |-> PadDword(<<>>)]
    ELSE [threw |-> FALSE,
          val |-> IF neg THEN NegateDword(PadDword(d)) ELSE PadDword(d)]

\* the value of the digit run, or invalid_argument when it is empty
ConvertRun(neg, run) ==
    IF run = <<>> THEN [threw |-> TRUE, val |-> PadDword(<<>>)]
    ELSE ConvertDigits(neg, StripZeros(run))

\* strtoul from the first non-space character
stoulFrom(a) == ConvertRun(IsNegative(a), DigitRun(StripHexPrefix(StripSign(a))))

stoul(str) == stoulFrom(SkipSpace(str))

\* static_cast<BYTE>(unsigned long): the low 8 bits
ToByte(w) == 16 * w[DwordNibbles - 1] + w[DwordNibbles]

(***************************************************************************)
(* Stream formatting                                                       *)
(***************************************************************************)
\* ss << std::hex << std::uppercase << dword : no padding, at least one digit
FormatHexDword(w) ==
    LET d == StripZeros(w)
    IN  IF d = <<>> THEN <<"0">> ELSE [i \in 1..Len(d) |-> HexUpper[d[i] + 1]]

\* ss << std::hex << setfill('0') << setw(2) << (int)byte, then toupper
FormatHexByte(b) == <<HexUpper[(b \div 16) + 1], HexUpper[(b % 16) + 1]>>

RECURSIVE FormatMac(_, _)
FormatMac(addr, n) ==
    IF n = 0 THEN <<>>
    ELSE IF n = 1 THEN FormatHexByte(addr[1])
    ELSE FormatMac(addr, n - 1) \o <<":">> \o FormatHexByte(addr[n])

\* GenerateRandomMac with `dis` the six values drawn from 0..255
GenerateRandomMac(dis) == FormatMac(dis, 6)

(***************************************************************************)
(* The machine outside the module: the real identity sources               *)
(***************************************************************************)
\* serial the real GetVolumeInformationA reports (0x0A2B3C4D)
RealVolumeSerial == <<0, 10, 2, 11, 3, 12, 4, 13>>
\* every other out-parameter of the real volume query, as one value
RealVolumeOthers == "REAL_VOLUME_INFO"
\* content of an out-parameter the real query did not write
Unwritten == "UNWRITTEN"
\* a serial out-parameter the real query did not write (no DWORD)
UnwrittenSerial == <<>>

\* records the real GetAdaptersInfo returns (Next-linked, here a sequence)
RealAdapters ==
    << [AddressLength |-> 6, Address |-> <<0, 27, 33, 60, 77, 94, 0, 0>>],
       [AddressLength |-> 4, Address |-> <<16, 32, 48, 64, 0, 0, 0, 0>>],
       [AddressLength |-> 8, Address |-> <<1, 2, 3, 4, 5, 6, 7, 8>>] >>

\* result of the real volume query: BOOL, serial out-parameter, the rest
RealGetVolumeInformationA(ok) ==
    IF ok THEN [ret |-> TRUE,  serial |-> RealVolumeSerial, others |-> RealVolumeOthers]
          ELSE [ret |-> FALSE, serial |-> UnwrittenSerial, others |-> Unwritten]

\* result of the real adapter enumeration: status and the record sequence
RealGetAdaptersInfo(ok) ==
    IF ok THEN [ret |-> "NO_ERROR", adapters |-> RealAdapters]
          ELSE [ret |-> "ERROR_BUFFER_OVERFLOW", adapters |-> <<>>]

(***************************************************************************)
(* Inputs                                                                  *)
(***************************************************************************)
\* identifier objects a caller passes to applySpoofing: two hex volume serials
\* (8 upper-case digits, 2 lower-case digits), a volume serial with trailing
\* non-hex characters, a 12-digit hardware
\* address, a hardware address in the colon form of GenerateRandomMac, and
\* an object carrying both categories
HexSerial == <<"D","E","A","D","B","E","E","F">>
ShortHexSerial == <<"1","f">>
TrailingJunkSerial == <<"1","2","Z","Z">>
PlainMac == <<"A","A","B","B","C","C","D","D","E","E","F","F">>
ColonMac == <<"A","A",":","B","B",":","C","C",":","D","D",":","E","E",":","F","F">>

IdentifierInputs ==
    { [macAddress |-> <<>>,     volumeSerial |-> HexSerial],
      [macAddress |-> <<>>,     volumeSerial |-> ShortHexSerial],
      [macAddress |-> <<>>,     volumeSerial |-> TrailingJunkSerial],
      [macAddress |-> PlainMac, volumeSerial |-> <<>>],
      [macAddress |-> ColonMac, volumeSerial |-> <<>>],
      [macAddress |-> PlainMac, volumeSerial |-> HexSerial] }

(***************************************************************************)
(* State                                                                   *)
(***************************************************************************)
VARIABLES
    mem,        \* memory of the host process: g_spoofer and its members, the
                \* statics of api-hooks.cc, the Detours redirection table
    alive,      \* process ids OpenProcess/GetExitCodeProcess report STILL_ACTIVE
    modules,    \* what GetModuleHandleA / GetProcAddress resolve in the host
    hostUp,     \* FALSE once the host process has crashed
    hist,       \* history of the calls made (used to state the properties)
    last,       \* the step just taken, its inputs and results
    ctl,        \* where the thread inside a controller operation stands
    cb          \* where a thread inside a replacement handler stands

vars == <<mem, alive, modules, hostUp, hist, last, ctl, cb>>

\* SpoofedIdentifiers / OriginalIdentifiers after value-initialisation ({})
EmptySpoofed ==
    [macAddress |-> <<>>, volumeSerial |-> <<>>, active |-> FALSE, processId |-> 0]
EmptyOriginal == [macAddress |-> <<>>, volumeSerial |-> <<>>]

\* WindowsSpoofer::WindowsSpoofer(): the members of a fresh instance
Constructed(m) ==
    [m EXCEPT !.g_spoofer = TRUE,
              !.m_initialized = FALSE,
              !.m_hooksInstalled = FALSE,
              !.m_targetProcessId = 0,
              !.m_currentSpoofed = EmptySpoofed,
              !.m_originalValues = EmptyOriginal]

InitMem ==
    [g_spoofer |-> FALSE,
     m_initialized |-> FALSE,
     m_hooksInstalled |-> FALSE,
     m_targetProcessId |-> 0,
     m_currentSpoofed |-> EmptySpoofed,
     m_originalValues |-> EmptyOriginal,
     g_spooferInstance |-> "null",
     g_originalGetVolumeInformationA |-> FALSE,
     g_originalGetAdaptersInfo |-> FALSE,
     detourVolume |-> FALSE,
     detourAdapters |-> FALSE]

(***************************************************************************)
(* identifier-manager.cc: status                                           *)
(***************************************************************************)
\* OpenProcess succeeds and GetExitCodeProcess reports STILL_ACTIVE
IsProcessAlive(al, processId) == processId \in al

\* variant: the stored flag alone, without the liveness read
IsSpoofingActiveStoredFlag(m, al) ==
    m.m_initialized /\ m.m_currentSpoofed.active

IsSpoofingActive(m, al) ==
    m.m_initialized /\ m.m_currentSpoofed.active /\ IsProcessAlive(al, m.m_targetProcessId)

\* returns a copy of the member
GetCurrentSpoofedValues(m) == m.m_currentSpoofed

CanSafeMacSpoof == TRUE
ApplyMacSpoofing(newMac) == TRUE
SpoofVolumeSerial(newSerial) == TRUE

(***************************************************************************)
(* api-hooks.cc: the replacement handlers                                  *)
(*                                                                         *)
(* The handlers reach the controller through the static g_spooferInstance. *)
(* When that pointer refers to an instance that has been destroyed, the    *)
(* reads are undefined: the handler may crash, or see any flag and any     *)
(* strings in the freed memory.                                            *)
(***************************************************************************)
NoUB == [crash |-> FALSE, active |-> FALSE, current |-> EmptySpoofed]

UBReads ==
    { [crash |-> TRUE, active |-> FALSE, current |-> EmptySpoofed],
      NoUB,
      [crash |-> FALSE, active |-> TRUE,
       current |-> [macAddress |-> PlainMac, volumeSerial |-> HexSerial,
                    active |-> TRUE, processId |-> 0]] }

UBChoices(m) == IF m.g_spooferInstance = "dangling" THEN UBReads ELSE {NoUB}

\* g_spooferInstance->IsSpoofingActive() and ->GetCurrentSpoofedValues()
DerefInstance(m, al, ub) ==
    IF m.g_spooferInstance = "this"
    THEN [crash |-> FALSE, active |-> IsSpoofingActive(m, al),
          current |-> GetCurrentSpoofedValues(m)]
    ELSE ub

\* what a caller of the real volume query gets back
CallGetVolumeInformationA(realOk, wantSerial) ==
    [crash  |-> FALSE,
     ret    |-> RealGetVolumeInformationA(realOk).ret,
     serial |-> IF wantSerial THEN RealGetVolumeInformationA(realOk).serial
                ELSE UnwrittenSerial,
     others |-> RealGetVolumeInformationA(realOk).others]

\* variant: the condition inverted
OverwriteSerialInverted(result, spoofedSerial) ==
    IF ~spoofedSerial.threw THEN result
    ELSE [result EXCEPT !.serial = spoofedSerial.val]

\* the try block: *lpVolumeSerialNumber = spoofedSerial unless stoul threw
OverwriteSerial(result, spoofedSerial) ==
    IF spoofedSerial.threw THEN result
    ELSE [result EXCEPT !.serial = spoofedSerial.val]

\* the handler after the original function returned `result`; inst is what
\* the reads through g_spooferInstance yield
SpoofVolumeSerialNumber(m, inst, result, wantSerial) ==
    IF m.g_spooferInstance = "null" THEN result
    ELSE IF inst.crash THEN [result EXCEPT !.crash = TRUE]
    ELSE IF inst.active /\ wantSerial /\ inst.current.volumeSerial # <<>>
    THEN OverwriteSerial(result, stoul(inst.current.volumeSerial))
    ELSE result

HookedGetVolumeInformationA(m, al, realOk, wantSerial, ub) ==
    SpoofVolumeSerialNumber(m, DerefInstance(m, al, ub),
                            CallGetVolumeInformationA(realOk, wantSerial), wantSerial)

\* std::string::substr(pos, 2)
Substr2(str, pos) ==
    SubSeq(str, pos + 1, IF pos + 2 <= Len(str) THEN pos + 2 ELSE Len(str))

\* the for loop over the first 6 address bytes of one record, from byte i:
\* a byte that does not convert ends the loop for this record
RECURSIVE SpoofAddressBytes(_, _, _, _)
SpoofAddressBytes(Address, AddressLength, mac, i) ==
    IF ~(i < 6 /\ i < AddressLength) THEN Address
    ELSE IF stoul(Substr2(mac, i * 2)).threw THEN Address
    ELSE SpoofAddressBytes(
             [Address EXCEPT ![i + 1] = ToByte(stoul(Substr2(mac, i * 2)).val)],
             AddressLength, mac, i + 1)

\* variant: a record whose address does not convert in full is left as the
\* real query wrote it
SpoofAdapterAllOrNothing(pAdapter, mac) ==
    IF /\ Len(mac) >= 12
       /\ \A i \in 0..5 :
              i < pAdapter.AddressLength => ~stoul(Substr2(mac, i * 2)).threw
    THEN [pAdapter EXCEPT !.Address =
              SpoofAddressBytes(pAdapter.Address, pAdapter.AddressLength, mac, 0)]
    ELSE pAdapter

\* the body of the while loop for one adapter record
SpoofAdapter(pAdapter, mac) ==
    IF Len(mac) >= 12
    THEN [pAdapter EXCEPT !.Address =
              SpoofAddressBytes(pAdapter.Address, pAdapter.AddressLength, mac, 0)]
    ELSE pAdapter

\* what a caller of the real adapter enumeration gets back
CallGetAdaptersInfo(realOk) ==
    [crash    |-> FALSE,
     ret      |-> RealGetAdaptersInfo(realOk).ret,
     adapters |-> RealGetAdaptersInfo(realOk).adapters]

\* variant: only the first record of the list is rewritten
SpoofAdapterAddressesFirstOnly(m, inst, result) ==
    IF m.g_spooferInstance = "null" THEN result
    ELSE IF inst.crash THEN [result EXCEPT !.crash = TRUE]
    ELSE IF inst.active /\ result.ret = "NO_ERROR" /\ inst.current.macAddress # <<>>
    THEN [result EXCEPT !.adapters =
             [k \in 1..Len(result.adapters) |->
                 IF k = 1 THEN SpoofAdapter(result.adapters[k], inst.current.macAddress)
                 ELSE result.adapters[k]]]
    ELSE result

\* the handler after the original function returned `result`
SpoofAdapterAddresses(m, inst, result) ==
    IF m.g_spooferInstance = "null" THEN result
    ELSE IF inst.crash THEN [result EXCEPT !.crash = TRUE]
    ELSE IF inst.active /\ result.ret = "NO_ERROR" /\ inst.current.macAddress # <<>>
    THEN [result EXCEPT !.adapters =
             [k \in 1..Len(result.adapters) |->
                 SpoofAdapter(result.adapters[k], inst.current.macAddress)]]
    ELSE result

HookedGetAdaptersInfo(m, al, realOk, ub) ==
    SpoofAdapterAddresses(m, DerefInstance(m, al, ub), CallGetAdaptersInfo(realOk))

(***************************************************************************)
(* The two identity queries as a process p issues them.  Detours patches   *)
(* the entry points in the memory of the process that called InstallHooks  *)
(* (its processId argument is unused), so only the host's calls reach the  *)
(* replacement handlers.                                                   *)
(***************************************************************************)
GetVolumeInformationA(p, m, al, realOk, wantSerial, ub) ==
    IF p = HostPid /\ m.detourVolume
    THEN HookedGetVolumeInformationA(m, al, realOk, wantSerial, ub)
    ELSE CallGetVolumeInformationA(realOk, wantSerial)

GetAdaptersInfo(p, m, al, realOk, ub) ==
    IF p = HostPid /\ m.detourAdapters
    THEN HookedGetAdaptersInfo(m, al, realOk, ub)
    ELSE CallGetAdaptersInfo(realOk)

(***************************************************************************)
(* api-hooks.cc: installing and removing the redirections                  *)
(*                                                                         *)
(* A method is an operator from the memory before the call to the memory   *)
(* after it and the value returned.  commitOk is the outcome of            *)
(* DetourTransactionCommit; a failed commit leaves the table as it was.    *)
(***************************************************************************)
\* kernel32.dll is mapped into every process
hKernel32 == TRUE

\* GetProcAddress for the two entry points; g_originalGetAdaptersInfo is
\* assigned only when iphlpapi.dll is loaded
ResolveEntryPoints(m, mods) ==
    [m EXCEPT !.g_originalGetVolumeInformationA = mods.volumeEntry,
              !.g_originalGetAdaptersInfo =
                  IF mods.iphlpapi THEN TRUE ELSE m.g_originalGetAdaptersInfo]

\* variant: a failed commit leaves the first attach in place
AttachAndCommitNoRollback(m, commitOk) ==
    IF ~m.g_originalGetVolumeInformationA THEN [mem |-> m, ret |-> FALSE]
    ELSE IF commitOk
    THEN [mem |-> [m EXCEPT
                     !.detourVolume = TRUE,
                     !.detourAdapters = m.detourAdapters \/ m.g_originalGetAdaptersInfo,
                     !.m_hooksInstalled = TRUE],
          ret |-> TRUE]
    ELSE [mem |-> [m EXCEPT !.detourVolume = TRUE], ret |-> FALSE]

\* DetourTransactionBegin .. DetourTransactionCommit of InstallHooks
AttachAndCommit(m, commitOk) ==
    IF ~m.g_originalGetVolumeInformationA THEN [mem |-> m, ret |-> FALSE]
    ELSE IF commitOk
    THEN [mem |-> [m EXCEPT
                     !.detourVolume = TRUE,
                     !.detourAdapters = m.detourAdapters \/ m.g_originalGetAdaptersInfo,
                     !.m_hooksInstalled = TRUE],
          ret |-> TRUE]
    ELSE [mem |-> m, ret |-> FALSE]

\* variant: a missing iphlpapi.dll fails the installation
InstallHooksAdaptersMandatory(m, mods, commitOk) ==
    IF m.m_hooksInstalled THEN [mem |-> m, ret |-> TRUE]
    ELSE IF ~hKernel32 \/ ~mods.iphlpapi
    THEN [mem |-> [m EXCEPT !.g_spooferInstance = "this"], ret |-> FALSE]
    ELSE AttachAndCommit(
             ResolveEntryPoints([m EXCEPT !.g_spooferInstance = "this"], mods),
             commitOk)

InstallHooks(m, mods, commitOk) ==
    IF m.m_hooksInstalled THEN [mem |-> m, ret |-> TRUE]
    ELSE IF ~hKernel32
    THEN [mem |-> [m EXCEPT !.g_spooferInstance = "this"], ret |-> FALSE]
    ELSE AttachAndCommit(
             ResolveEntryPoints([m EXCEPT !.g_spooferInstance = "this"], mods),
             commitOk)

RemoveHooks(m, commitOk) ==
    IF ~m.m_hooksInstalled THEN [mem |-> m, ret |-> TRUE]
    ELSE IF commitOk
    THEN [mem |-> [m EXCEPT
                     !.detourVolume =
                         IF m.g_originalGetVolumeInformationA THEN FALSE
                         ELSE m.detourVolume,
                     !.detourAdapters =
                         IF m.g_originalGetAdaptersInfo THEN FALSE
                         ELSE m.detourAdapters,
                     !.m_hooksInstalled = FALSE,
                     !.g_spooferInstance = "null"],
          ret |-> TRUE]
    ELSE [mem |-> m, ret |-> FALSE]

(***************************************************************************)
(* identifier-manager.cc: capture of the original identifiers              *)
(***************************************************************************)
DefaultMac ==
    <<"0","0",":","0","0",":","0","0",":","0","0",":","0","0",":","0","0">>
DefaultVolumeSerial == <<"0","0","0","0","0","0","0","0">>

\* the string built from the answer q of GetAdaptersInfo
MacOfAdapters(q) ==
    IF q.crash THEN [crash |-> TRUE, value |-> DefaultMac]
    ELSE IF q.ret = "NO_ERROR" /\ Len(q.adapters) > 0
            /\ q.adapters[1].AddressLength = 6
    THEN [crash |-> FALSE,
          value |-> FormatMac(q.adapters[1].Address, q.adapters[1].AddressLength)]
    ELSE [crash |-> FALSE, value |-> DefaultMac]

\* the controller calls GetAdaptersInfo in its own (the host) process
GetCurrentMacAddress(m, al, adpOk, ub) ==
    MacOfAdapters(GetAdaptersInfo(HostPid, m, al, adpOk, ub))

\* the string built from the answer q of GetVolumeInformationA; the local
\* volumeSerial starts as 0
SerialOfVolume(q) ==
    IF q.crash THEN [crash |-> TRUE, value |-> DefaultVolumeSerial]
    ELSE IF q.ret
    THEN [crash |-> FALSE,
          value |-> FormatHexDword(IF q.serial = UnwrittenSerial
                                   THEN PadDword(<<>>) ELSE q.serial)]
    ELSE [crash |-> FALSE, value |-> DefaultVolumeSerial]

\* the controller calls GetVolumeInformationA("C:\\", ...) in the host process
GetCurrentVolumeSerial(m, al, volOk, ub) ==
    SerialOfVolume(GetVolumeInformationA(HostPid, m, al, volOk, TRUE, ub))

OriginalOf(mac, vol) ==
    [crash |-> mac.crash \/ vol.crash,
     value |-> [macAddress |-> mac.value, volumeSerial |-> vol.value]]

GetOriginalIdentifiers(m, al, volOk, adpOk, ub) ==
    OriginalOf(GetCurrentMacAddress(m, al, adpOk, ub),
               GetCurrentVolumeSerial(m, al, volOk, ub))

(***************************************************************************)
(* identifier-manager.cc: the controller's operations                      *)
(***************************************************************************)
\* the assignments of InitializeForProcess once the capture returned
StoreOriginal(m, processId, original) ==
    [mem |-> [m EXCEPT !.m_originalValues = original.value,
                       !.m_targetProcessId = processId,
                       !.m_initialized = TRUE],
     ret |-> TRUE,
     crash |-> original.crash]

\* variant: without the early return for the pid already initialized
InitializeForProcessRecapture(m, al, processId, volOk, adpOk, ub) ==
    StoreOriginal(m, processId, GetOriginalIdentifiers(m, al, volOk, adpOk, ub))

InitializeForProcess(m, al, processId, volOk, adpOk, ub) ==
    IF m.m_initialized /\ m.m_targetProcessId = processId
    THEN [mem |-> m, ret |-> TRUE, crash |-> FALSE]
    ELSE StoreOriginal(m, processId, GetOriginalIdentifiers(m, al, volOk, adpOk, ub))

\* m_currentSpoofed = identifiers, stamped with the target pid and active
StoreSpoofed(m, identifiers) ==
    [m EXCEPT !.m_currentSpoofed =
        [macAddress |-> identifiers.macAddress,
         volumeSerial |-> identifiers.volumeSerial,
         processId |-> m.m_targetProcessId,
         active |-> TRUE]]

\* the per-category calls; each of them returns true
ApplyCategories(identifiers) ==
    /\ (identifiers.macAddress # <<>> /\ CanSafeMacSpoof)
           => ApplyMacSpoofing(identifiers.macAddress)
    /\ identifiers.volumeSerial # <<>> => SpoofVolumeSerial(identifiers.volumeSerial)

\* variant: a failed installation leaves the stored set marked active
AfterInstallHooksKeepActive(hooks, identifiers) ==
    IF ~hooks.ret
    THEN [mem |-> hooks.mem, ret |-> FALSE]
    ELSE [mem |-> hooks.mem, ret |-> ApplyCategories(identifiers)]

\* ApplySpoofing after InstallHooks returned `hooks`
AfterInstallHooks(hooks, identifiers) ==
    IF ~hooks.ret
    THEN [mem |-> [hooks.mem EXCEPT !.m_currentSpoofed.active = FALSE], ret |-> FALSE]
    ELSE [mem |-> hooks.mem, ret |-> ApplyCategories(identifiers)]

\* variant: without the m_initialized guard
ApplySpoofingUnguarded(m, mods, identifiers, commitOk) ==
    AfterInstallHooks(InstallHooks(StoreSpoofed(m, identifiers), mods, commitOk),
                      identifiers)

ApplySpoofing(m, mods, identifiers, commitOk) ==
    IF ~m.m_initialized THEN [mem |-> m, ret |-> FALSE]
    ELSE AfterInstallHooks(InstallHooks(StoreSpoofed(m, identifiers), mods, commitOk),
                           identifiers)

\* RestoreOriginalValues ignores what RemoveHooks returns
ClearActive(hooks) ==
    [mem |-> [hooks.mem EXCEPT !.m_currentSpoofed.active = FALSE], ret |-> TRUE]

RestoreOriginalValues(m, commitOk) ==
    IF ~m.m_initialized \/ ~m.m_currentSpoofed.active THEN [mem |-> m, ret |-> TRUE]
    ELSE ClearActive(RemoveHooks(m, commitOk))

Uninitialize(m) == [m EXCEPT !.m_initialized = FALSE, !.m_targetProcessId = 0]

Cleanup(m, commitOk) ==
    IF m.m_initialized THEN Uninitialize(RestoreOriginalValues(m, commitOk).mem) ELSE m

\* the instance is freed: a g_spooferInstance still set now refers to freed
\* memory
Freed(d) ==
    [d EXCEPT !.g_spoofer = FALSE,
              !.m_initialized = FALSE,
              !.m_hooksInstalled = FALSE,
              !.m_targetProcessId = 0,
              !.m_currentSpoofed = EmptySpoofed,
              !.m_originalValues = EmptyOriginal,
              !.g_spooferInstance =
                  IF d.g_spooferInstance = "null" THEN "null" ELSE "dangling"]

\* g_spoofer.reset(): ~WindowsSpoofer runs Cleanup, then the memory is freed
Destroy(m, commitOk) == Freed(Cleanup(m, commitOk))

(***************************************************************************)
(* Initial state: the module has just been loaded                          *)
(***************************************************************************)
NoSet == [macAddress |-> <<>>, volumeSerial |-> <<>>]

\* appliedPid and appliedSet describe the spoof in force: they are cleared
\* when spoofActive is
InitHist ==
    [initPid |-> 0,          \* pid of the latest initializeForProcess since cleanup
     spoofActive |-> FALSE,  \* an applySpoofing succeeded, no restore/cleanup since
     appliedPid |-> 0,       \* initPid when that applySpoofing ran
     appliedSet |-> NoSet,   \* the object that applySpoofing was given
     restored |-> FALSE,     \* restoreOriginalIdentifiers ran after the latest
                             \* applySpoofing, and no applySpoofing since
     sourcesAnswered |-> FALSE]  \* the real queries answered during the capture
                                 \* of the latest initializeForProcess

\* no thread is inside a controller operation or inside a handler
IdleCtl ==
    [pc |-> "idle", op |-> "none", identifiers |-> EmptySpoofed,
     complete |-> {}, calls |-> 0]
IdleCb ==
    [pc |-> "idle", kind |-> "none", instance |-> "null", result |-> <<>>,
     current |-> EmptySpoofed, allowed |-> {}, activeAtRead |-> FALSE,
     freed |-> FALSE, wrote |-> FALSE]

Init ==
    /\ mem = InitMem
    /\ alive = Pids
    /\ modules \in [volumeEntry : BOOLEAN, iphlpapi : BOOLEAN]
    /\ hostUp = TRUE
    /\ hist = InitHist
    /\ last = [name |-> "load"]
    /\ ctl = IdleCtl
    /\ cb = IdleCb

\* an intercepted call dereferenced a destroyed controller and faulted
Crash(name) ==
    /\ hostUp' = FALSE
    /\ last' = [name |-> name, crash |-> TRUE]
    /\ UNCHANGED <<mem, alive, modules, hist, ctl, cb>>

(***************************************************************************)
(* spoofer.cc: the operations exported to the host runtime                 *)
(***************************************************************************)
\* what the caller of an exported operation gets: the boolean passed to
\* info.GetReturnValue().Set, or the error raised by Nan::ThrowError
Returned(b) == IF b THEN "true" ELSE "false"
Threw == "throw"

\* g_spoofer, created by make_unique when it is null
SpooferOrNew(m) == IF m.g_spoofer THEN m ELSE Constructed(m)

Initialized(processId, realOk, r) ==
    IF r.crash THEN Crash("initializeForProcess")
    ELSE /\ mem' = r.mem
         /\ hist' = IF r.ret
                    THEN [hist EXCEPT !.initPid = processId,
                                      !.sourcesAnswered =
                                          IF hist.initPid = processId THEN @ ELSE realOk]
                    ELSE hist
         /\ last' = [name |-> "initializeForProcess", crash |-> FALSE,
                     processId |-> processId, result |-> Returned(r.ret)]
         /\ UNCHANGED <<alive, modules, hostUp>>

\* realOk: whether the real identity queries answer during the capture
HostInitializeForProcess(processId, realOk, ub) ==
    /\ hostUp
    /\ UNCHANGED <<ctl, cb>>
    /\ Initialized(processId, realOk,
                   InitializeForProcess(SpooferOrNew(mem), alive, processId,
                                        realOk, realOk, ub))

Applied(identifiers, r) ==
    /\ mem' = r.mem
    /\ hist' = IF r.ret
               THEN [hist EXCEPT !.spoofActive = TRUE,
                                 !.appliedPid = hist.initPid,
                                 !.appliedSet = identifiers,
                                 !.restored = FALSE]
               ELSE [hist EXCEPT !.restored = FALSE]
    /\ last' = [name |-> "applySpoofing", crash |-> FALSE,
                identifiers |-> identifiers, result |-> Returned(r.ret)]

HostApplySpoofing(identifiers, commitOk) ==
    /\ hostUp
    /\ UNCHANGED <<ctl, cb>>
    /\ IF ~mem.g_spoofer
       THEN /\ last' = [name |-> "applySpoofing", crash |-> FALSE,
                        identifiers |-> identifiers, result |-> Threw]
            /\ UNCHANGED <<mem, hist>>
       ELSE Applied(identifiers, ApplySpoofing(mem, modules, identifiers, commitOk))
    /\ UNCHANGED <<alive, modules, hostUp>>

HostGenerateRandomIdentifiers ==
    /\ hostUp
    /\ UNCHANGED <<ctl, cb>>
    /\ mem' = SpooferOrNew(mem)
    /\ last' = [name |-> "generateRandomIdentifiers", crash |-> FALSE]
    /\ UNCHANGED <<alive, modules, hostUp, hist>>

\* the "active" field of the object getSpoofingStatus returns
GetSpoofingStatus(m, al) == IF ~m.g_spoofer THEN FALSE ELSE IsSpoofingActive(m, al)

HostGetSpoofingStatus ==
    /\ hostUp
    /\ UNCHANGED <<ctl, cb>>
    /\ last' = [name |-> "getSpoofingStatus", crash |-> FALSE,
                active |-> GetSpoofingStatus(mem, alive)]
    /\ UNCHANGED <<mem, alive, modules, hostUp, hist>>

Restored(r) ==
    /\ mem' = r.mem
    /\ hist' = [hist EXCEPT !.spoofActive = FALSE, !.restored = TRUE,
                            !.appliedPid = 0, !.appliedSet = NoSet]
    /\ last' = [name |-> "restoreOriginalIdentifiers", crash |-> FALSE,
                result |-> Returned(r.ret)]

HostRestoreOriginalIdentifiers(commitOk) ==
    /\ hostUp
    /\ UNCHANGED <<ctl, cb>>
    /\ IF ~mem.g_spoofer
       THEN /\ last' = [name |-> "restoreOriginalIdentifiers", crash |-> FALSE,
                        result |-> Threw]
            /\ UNCHANGED <<mem, hist>>
       ELSE Restored(RestoreOriginalValues(mem, commitOk))
    /\ UNCHANGED <<alive, modules, hostUp>>

HostCleanup(commitOk) ==
    /\ hostUp
    /\ UNCHANGED <<ctl, cb>>
    /\ mem' = IF mem.g_spoofer THEN Destroy(Cleanup(mem, commitOk), commitOk) ELSE mem
    /\ hist' = [hist EXCEPT !.initPid = 0, !.spoofActive = FALSE,
                            !.appliedPid = 0, !.appliedSet = NoSet,
                            !.sourcesAnswered = FALSE]
    /\ last' = [name |-> "cleanup", crash |-> FALSE, result |-> Returned(TRUE)]
    /\ UNCHANGED <<alive, modules, hostUp>>

HostCanSafeMacSpoof ==
    /\ hostUp
    /\ UNCHANGED <<ctl, cb>>
    /\ last' = [name |-> "canSafeMacSpoof", crash |-> FALSE,
                result |-> Returned(IF ~mem.g_spoofer THEN FALSE ELSE CanSafeMacSpoof)]
    /\ UNCHANGED <<mem, alive, modules, hostUp, hist>>

(***************************************************************************)
(* The environment: identity queries by any live process, process exit     *)
(***************************************************************************)
VolumeQueried(p, wantSerial, real, out) ==
    IF out.crash THEN Crash("volumeQuery")
    ELSE /\ last' = [name |-> "volumeQuery", crash |-> FALSE, process |-> p,
                     intercepted |-> (p = HostPid /\ mem.detourVolume),
                     wantSerial |-> wantSerial, real |-> real, out |-> out]
         /\ UNCHANGED <<mem, alive, modules, hostUp, hist>>

VolumeQuery(p, realOk, wantSerial, ub) ==
    /\ hostUp
    /\ UNCHANGED <<ctl, cb>>
    /\ p \in alive
    /\ VolumeQueried(p, wantSerial, CallGetVolumeInformationA(realOk, wantSerial),
                     GetVolumeInformationA(p, mem, alive, realOk, wantSerial, ub))

AdaptersQueried(p, real, out) ==
    IF out.crash THEN Crash("adapterQuery")
    ELSE /\ last' = [name |-> "adapterQuery", crash |-> FALSE, process |-> p,
                     intercepted |-> (p = HostPid /\ mem.detourAdapters),
                     real |-> real, out |-> out]
         /\ UNCHANGED <<mem, alive, modules, hostUp, hist>>

AdapterQuery(p, realOk, ub) ==
    /\ hostUp
    /\ UNCHANGED <<ctl, cb>>
    /\ p \in alive
    /\ AdaptersQueried(p, CallGetAdaptersInfo(realOk),
                       GetAdaptersInfo(p, mem, alive, realOk, ub))

\* a process other than the host exits
Terminate(p) ==
    /\ hostUp
    /\ UNCHANGED <<ctl, cb>>
    /\ p \in alive \ {HostPid}
    /\ alive' = alive \ {p}
    /\ last' = [name |-> "terminate", crash |-> FALSE, process |-> p]
    /\ UNCHANGED <<mem, modules, hostUp, hist>>

Next ==
    \/ \E processId \in Pids, realOk \in BOOLEAN, ub \in UBChoices(mem) :
           HostInitializeForProcess(processId, realOk, ub)
    \/ \E identifiers \in IdentifierInputs, commitOk \in BOOLEAN :
           HostApplySpoofing(identifiers, commitOk)
    \/ HostGenerateRandomIdentifiers
    \/ HostGetSpoofingStatus
    \/ \E commitOk \in BOOLEAN : HostRestoreOriginalIdentifiers(commitOk)
    \/ \E commitOk \in BOOLEAN : HostCleanup(commitOk)
    \/ HostCanSafeMacSpoof
    \/ \E p \in Pids, realOk \in BOOLEAN, wantSerial \in BOOLEAN, ub \in UBChoices(mem) :
           VolumeQuery(p, realOk, wantSerial, ub)
    \/ \E p \in Pids, realOk \in BOOLEAN, ub \in UBChoices(mem) :
           AdapterQuery(p, realOk, ub)
    \/ \E p \in Pids : Terminate(p)

Spec == Init /\ [][Next]_vars

(***************************************************************************)
(* The same code at the granularity of its loads and stores.  The handlers *)
(* run on whatever thread of the host calls an intercepted entry point,    *)
(* while another thread is inside applySpoofing, restoreOriginalIdentifiers*)
(* or cleanup; the source takes no lock and uses no atomic, so the steps   *)
(* of the two threads interleave freely.  A std::string member is taken as *)
(* loaded or stored in one step, the members of a struct one after the     *)
(* other in declaration order.                                             *)
(***************************************************************************)
\* controller operations started in one behaviour
MaxCalls == 2

ConcurrentInputs ==
    { [macAddress |-> PlainMac, volumeSerial |-> HexSerial],
      [macAddress |-> <<>>,     volumeSerial |-> ShortHexSerial] }

\* SpoofedIdentifiers identifiers = {}; identifiers.active = true; and the
\* strings read from the argument
BindingIdentifiers(identifiers) ==
    [macAddress |-> identifiers.macAddress,
     volumeSerial |-> identifiers.volumeSerial,
     active |-> TRUE,
     processId |-> 0]

\* the complete sets an operation leaves in m_currentSpoofed
ApplyOutcomes(m, identifiers) ==
    { StoreSpoofed(m, identifiers).m_currentSpoofed,
      [StoreSpoofed(m, identifiers).m_currentSpoofed EXCEPT !.active = FALSE] }
RestoreOutcomes(m) == { [m.m_currentSpoofed EXCEPT !.active = FALSE] }

\* memory after initializeForProcess(HostPid) and a successful applySpoofing
SpoofActiveMem(mods, identifiers) ==
    ApplySpoofing(
        InitializeForProcess(Constructed(InitMem), Pids, HostPid, TRUE, TRUE, NoUB).mem,
        mods, identifiers, TRUE).mem

InitConcurrent ==
    /\ modules = [volumeEntry |-> TRUE, iphlpapi |-> TRUE]
    /\ \E identifiers \in ConcurrentInputs :
          /\ mem = SpoofActiveMem(modules, identifiers)
          /\ hist = [InitHist EXCEPT !.initPid = HostPid,
                                     !.spoofActive = TRUE,
                                     !.appliedPid = HostPid,
                                     !.appliedSet = identifiers,
                                     !.sourcesAnswered = TRUE]
          /\ last = [name |-> "applySpoofing", crash |-> FALSE,
                     identifiers |-> identifiers, result |-> "true"]
    /\ alive = Pids
    /\ hostUp = TRUE
    /\ ctl = [IdleCtl EXCEPT !.complete = {mem.m_currentSpoofed}]
    /\ cb = IdleCb

(***************************************************************************)
(* The thread inside a controller operation                                *)
(***************************************************************************)
\* the members of m_currentSpoofed a handler has begun, not finished, to copy
CopyUnderWay == {"copy_volumeSerial", "copy_active", "copy_processId"}

\* a handler in the middle of its copy runs beside the operation now started
NoteOutcomes(outcomes) ==
    cb' = IF cb.pc \in CopyUnderWay THEN [cb EXCEPT !.allowed = @ \cup outcomes]
          ELSE cb

\* the operation returned, m is the memory it leaves
CtlReturn(m) ==
    [IdleCtl EXCEPT !.complete = {m.m_currentSpoofed}, !.calls = ctl.calls]

\* ApplySpoofing is entered and passes the m_initialized test
BeginApplySpoofing(identifiers) ==
    /\ hostUp
    /\ ctl.pc = "idle"
    /\ ctl.calls < MaxCalls
    /\ mem.g_spoofer
    /\ mem.m_initialized
    /\ ctl' = [pc |-> "assign_macAddress", op |-> "applySpoofing",
               identifiers |-> BindingIdentifiers(identifiers),
               complete |-> {mem.m_currentSpoofed} \cup ApplyOutcomes(mem, identifiers),
               calls |-> ctl.calls + 1]
    /\ NoteOutcomes(ApplyOutcomes(mem, identifiers))
    /\ UNCHANGED <<mem, alive, modules, hostUp, hist, last>>

\* m_currentSpoofed = identifiers (member by member), then the two stamps
ApplyStores ==
    {"assign_macAddress", "assign_volumeSerial", "assign_active",
     "assign_processId", "stamp_processId", "stamp_active"}

StoreOf(pc, m, identifiers) ==
    CASE pc = "assign_macAddress" ->
             [m.m_currentSpoofed EXCEPT !.macAddress = identifiers.macAddress]
      [] pc = "assign_volumeSerial" ->
             [m.m_currentSpoofed EXCEPT !.volumeSerial = identifiers.volumeSerial]
      [] pc = "assign_active" ->
             [m.m_currentSpoofed EXCEPT !.active = identifiers.active]
      [] pc = "assign_processId" ->
             [m.m_currentSpoofed EXCEPT !.processId = identifiers.processId]
      [] pc = "stamp_processId" ->
             [m.m_currentSpoofed EXCEPT !.processId = m.m_targetProcessId]
      [] pc = "stamp_active" ->
             [m.m_currentSpoofed EXCEPT !.active = TRUE]

AfterStore(pc) ==
    CASE pc = "assign_macAddress" -> "assign_volumeSerial"
      [] pc = "assign_volumeSerial" -> "assign_active"
      [] pc = "assign_active" -> "assign_processId"
      [] pc = "assign_processId" -> "stamp_processId"
      [] pc = "stamp_processId" -> "stamp_active"
      [] pc = "stamp_active" -> "InstallHooks"

ApplySpoofingStore ==
    /\ hostUp
    /\ ctl.pc \in ApplyStores
    /\ mem' = [mem EXCEPT !.m_currentSpoofed = StoreOf(ctl.pc, mem, ctl.identifiers)]
    /\ ctl' = [ctl EXCEPT !.pc = AfterStore(ctl.pc)]
    /\ UNCHANGED <<alive, modules, hostUp, hist, last, cb>>

\* InstallHooks and the rest of ApplySpoofing
ApplySpoofingInstallHooks(commitOk) ==
    /\ hostUp
    /\ ctl.pc = "InstallHooks"
    /\ mem' = AfterInstallHooks(InstallHooks(mem, modules, commitOk),
                                ctl.identifiers).mem
    /\ ctl' = CtlReturn(mem')
    /\ UNCHANGED <<alive, modules, hostUp, hist, last, cb>>

\* RestoreOriginalValues is entered, directly or from Cleanup
AfterRestore(op) == IF op = "cleanup" THEN "uninitialize" ELSE "idle"

RestoreEntered(op) ==
    IF mem.m_initialized /\ mem.m_currentSpoofed.active THEN "RemoveHooks"
    ELSE AfterRestore(op)

CtlAt(pc, op) ==
    IF pc = "idle" THEN [ctl EXCEPT !.calls = @ + 1]
    ELSE [pc |-> pc, op |-> op, identifiers |-> EmptySpoofed,
          complete |-> {mem.m_currentSpoofed} \cup RestoreOutcomes(mem),
          calls |-> ctl.calls + 1]

BeginRestoreOriginalValues(op) ==
    /\ hostUp
    /\ ctl.pc = "idle"
    /\ ctl.calls < MaxCalls
    /\ mem.g_spoofer
    /\ ctl' = CtlAt(RestoreEntered(op), op)
    /\ NoteOutcomes(RestoreOutcomes(mem))
    /\ UNCHANGED <<mem, alive, modules, hostUp, hist, last>>

RestoreRemoveHooks(commitOk) ==
    /\ hostUp
    /\ ctl.pc = "RemoveHooks"
    /\ mem' = RemoveHooks(mem, commitOk).mem
    /\ ctl' = [ctl EXCEPT !.pc = "clear_active"]
    /\ UNCHANGED <<alive, modules, hostUp, hist, last, cb>>

RestoreClearActive ==
    /\ hostUp
    /\ ctl.pc = "clear_active"
    /\ mem' = [mem EXCEPT !.m_currentSpoofed.active = FALSE]
    /\ ctl' = IF ctl.op = "cleanup" THEN [ctl EXCEPT !.pc = "uninitialize"]
              ELSE CtlReturn(mem')
    /\ UNCHANGED <<alive, modules, hostUp, hist, last, cb>>

\* Cleanup: m_initialized = false; m_targetProcessId = 0
CleanupUninitialize ==
    /\ hostUp
    /\ ctl.pc = "uninitialize"
    /\ mem' = Uninitialize(mem)
    /\ ctl' = [ctl EXCEPT !.pc = "reset"]
    /\ UNCHANGED <<alive, modules, hostUp, hist, last, cb>>

\* g_spoofer.reset()
CleanupReset ==
    /\ hostUp
    /\ ctl.pc = "reset"
    /\ mem' = Freed(mem)
    /\ ctl' = CtlReturn(mem')
    /\ UNCHANGED <<alive, modules, hostUp, hist, last, cb>>

(***************************************************************************)
(* The thread inside HookedGetVolumeInformationA / HookedGetAdaptersInfo   *)
(***************************************************************************)
DetourInstalled(kind) ==
    IF kind = "volume" THEN mem.detourVolume ELSE mem.detourAdapters

\* the original function is called first; the volume query passes a serial
\* out-pointer
RealResult(kind, realOk) ==
    IF kind = "volume" THEN CallGetVolumeInformationA(realOk, TRUE)
    ELSE CallGetAdaptersInfo(realOk)

CallbackEnter(kind, realOk) ==
    /\ hostUp
    /\ cb.pc = "idle"
    /\ DetourInstalled(kind)
    /\ cb' = [IdleCb EXCEPT !.pc = "test_instance", !.kind = kind,
                            !.result = RealResult(kind, realOk)]
    /\ UNCHANGED <<mem, alive, modules, hostUp, hist, last, ctl>>

\* if (g_spooferInstance && ...
CallbackTestInstance ==
    /\ hostUp
    /\ cb.pc = "test_instance"
    /\ cb' = IF mem.g_spooferInstance = "null" THEN [cb EXCEPT !.pc = "return"]
             ELSE [cb EXCEPT !.pc = "IsSpoofingActive",
                             !.instance = mem.g_spooferInstance]
    /\ UNCHANGED <<mem, alive, modules, hostUp, hist, last, ctl>>

\* g_spooferInstance is named again at each use: the build loads it again or
\* keeps the value it loaded for the test
Loads == {cb.instance, mem.g_spooferInstance}

\* the pointer refers to an instance that g_spoofer.reset() has destroyed
Discarded(p) == p = "dangling" \/ ~mem.g_spoofer

ReadsThrough(p) == IF p # "null" /\ Discarded(p) THEN UBReads ELSE {NoUB}

\* the conditions of the if statement after IsSpoofingActive()
OtherConditions ==
    IF cb.kind = "volume" THEN TRUE ELSE cb.result.ret = "NO_ERROR"

\* the handler reads a destroyed instance: it takes whatever is there
ReadDiscarded(ub, conditions) ==
    IF ub.active /\ conditions
    THEN [cb EXCEPT !.pc = "write", !.current = ub.current, !.freed = TRUE]
    ELSE [cb EXCEPT !.pc = "return", !.freed = TRUE]

TestedActive(p, active) ==
    IF active THEN [cb EXCEPT !.pc = "copy_macAddress", !.instance = p]
    ELSE [cb EXCEPT !.pc = "return"]

\* ... g_spooferInstance->IsSpoofingActive() && ...)
CallbackIsSpoofingActive(p, ub) ==
    /\ hostUp
    /\ cb.pc = "IsSpoofingActive"
    /\ IF p = "null" \/ ub.crash THEN Crash("callback")
       ELSE /\ cb' = IF Discarded(p) THEN ReadDiscarded(ub, OtherConditions)
                     ELSE TestedActive(p, IsSpoofingActive(mem, alive) /\ OtherConditions)
            /\ UNCHANGED <<mem, alive, modules, hostUp, hist, last, ctl>>

\* SpoofedIdentifiers current = g_spooferInstance->GetCurrentSpoofedValues():
\* the copy is made member by member
CopySteps == {"copy_macAddress"} \cup CopyUnderWay

CopyPointers == IF cb.pc = "copy_macAddress" THEN Loads ELSE {cb.instance}

\* the flag of the stored set at the moment the value to write is loaded
FlagAtRead(kind) ==
    IF cb.kind = kind THEN mem.m_currentSpoofed.active ELSE cb.activeAtRead

Copied(pc, p) ==
    CASE pc = "copy_macAddress" ->
             [cb EXCEPT !.pc = "copy_volumeSerial",
                        !.instance = p,
                        !.current.macAddress = mem.m_currentSpoofed.macAddress,
                        !.allowed = ctl.complete,
                        !.activeAtRead = FlagAtRead("adapters")]
      [] pc = "copy_volumeSerial" ->
             [cb EXCEPT !.pc = "copy_active",
                        !.current.volumeSerial = mem.m_currentSpoofed.volumeSerial,
                        !.activeAtRead = FlagAtRead("volume")]
      [] pc = "copy_active" ->
             [cb EXCEPT !.pc = "copy_processId",
                        !.current.active = mem.m_currentSpoofed.active]
      [] pc = "copy_processId" ->
             [cb EXCEPT !.pc = "write",
                        !.current.processId = mem.m_currentSpoofed.processId]

CallbackCopy(p, ub) ==
    /\ hostUp
    /\ cb.pc \in CopySteps
    /\ IF p = "null" \/ ub.crash THEN Crash("callback")
       ELSE /\ cb' = IF Discarded(p) THEN ReadDiscarded(ub, TRUE)
                     ELSE Copied(cb.pc, p)
            /\ UNCHANGED <<mem, alive, modules, hostUp, hist, last, ctl>>

\* the overwrite of the out-parameters from the copy
WriteSerial(c) ==
    IF c.current.volumeSerial = <<>> THEN [c EXCEPT !.pc = "return"]
    ELSE [c EXCEPT !.pc = "return",
                   !.result = OverwriteSerial(c.result, stoul(c.current.volumeSerial)),
                   !.wrote = ~stoul(c.current.volumeSerial).threw]

WriteAddresses(c) ==
    IF c.current.macAddress = <<>> THEN [c EXCEPT !.pc = "return"]
    ELSE [c EXCEPT !.pc = "return",
                   !.result.adapters =
                       [k \in 1..Len(c.result.adapters) |->
                           SpoofAdapter(c.result.adapters[k], c.current.macAddress)],
                   !.wrote = Len(c.current.macAddress) >= 12]

CallbackWrite ==
    /\ hostUp
    /\ cb.pc = "write"
    /\ cb' = IF cb.kind = "volume" THEN WriteSerial(cb) ELSE WriteAddresses(cb)
    /\ UNCHANGED <<mem, alive, modules, hostUp, hist, last, ctl>>

\* return result
CallbackReturn ==
    /\ hostUp
    /\ cb.pc = "return"
    /\ cb' = IdleCb
    /\ UNCHANGED <<mem, alive, modules, hostUp, hist, last, ctl>>

NextConcurrent ==
    \/ \E identifiers \in ConcurrentInputs : BeginApplySpoofing(identifiers)
    \/ ApplySpoofingStore
    \/ \E commitOk \in BOOLEAN : ApplySpoofingInstallHooks(commitOk)
    \/ \E op \in {"restoreOriginalIdentifiers", "cleanup"} :
           BeginRestoreOriginalValues(op)
    \/ \E commitOk \in BOOLEAN : RestoreRemoveHooks(commitOk)
    \/ RestoreClearActive
    \/ CleanupUninitialize
    \/ CleanupReset
    \/ \E kind \in {"volume", "adapters"}, realOk \in BOOLEAN :
           CallbackEnter(kind, realOk)
    \/ CallbackTestInstance
    \/ \E p \in Loads : \E ub \in ReadsThrough(p) : CallbackIsSpoofingActive(p, ub)
    \/ \E p \in CopyPointers : \E ub \in ReadsThrough(p) : CallbackCopy(p, ub)
    \/ CallbackWrite
    \/ CallbackReturn

SpecConcurrent == InitConcurrent /\ [][NextConcurrent]_vars

(***************************************************************************)
(* Properties                                                              *)
(***************************************************************************)
\* the spoof is in force: an applySpoofing succeeded, no restore or cleanup
\* since, and the process the controller is initialized for is alive
SpoofInForce == hist.spoofActive /\ hist.initPid \in alive

\* a string of 1 to 8 hex digits, and the 32-bit value it denotes
ValidHex32(str) ==
    /\ Len(str) \in 1..DwordNibbles
    /\ \A i \in 1..Len(str) : IsHexDigit(str[i])
HexValue(str) == PadDword([i \in 1..Len(str) |-> HexDigitVal(str[i])])

IsQuery(name) == last.name = name /\ ~last.crash

C2_OtherProcessesSeeRealValues ==
    /\ (IsQuery("volumeQuery") /\ last.process # hist.initPid) => last.out = last.real
    /\ (IsQuery("adapterQuery") /\ last.process # hist.initPid) => last.out = last.real

\* C3: applySpoofing while the controller is Uninitialized does not succeed
\* (the controller returns false; with no controller object the binding
\* raises "Spoofer not initialized") and changes nothing: the stored set, its
\* active flag, the target pid and the interceptions are as before the call.
C3_ApplyUninitializedChangesNothing ==
    [][(last'.name = "applySpoofing" /\ hist.initPid = 0)
           => (last'.result # "true" /\ mem' = mem
               /\ (mem.g_spoofer => last'.result = "false"))]_vars

\* C3 witness: a controller exists (made by generateRandomIdentifiers), was
\* never initialized, and applySpoofing returned false
C3_Witness ==
    /\ last.name = "applySpoofing"
    /\ mem.g_spoofer
    /\ hist.initPid = 0
    /\ last.result = "false"

\* C4: restoreOriginalIdentifiers called while the controller is
\* Uninitialized returns failure (false), without raising.
C4_RestoreUninitializedReturnsFailure ==
    (last.name = "restoreOriginalIdentifiers" /\ hist.initPid = 0)
        => last.result = "false"

\* C5: after applySpoofing then restoreOriginalIdentifiers, and until the next
\* applySpoofing, every volume or adapter query observes the real value, and
\* that value equals the one captured at initialize time.
C5_RealValuesAfterRestore ==
    /\ (hist.restored /\ last.name \in {"volumeQuery", "adapterQuery"}) => ~last.crash
    /\ (hist.restored /\ IsQuery("volumeQuery") /\ last.wantSerial /\ last.real.ret)
           => /\ last.out.serial = RealVolumeSerial
              /\ (hist.initPid # 0 /\ hist.sourcesAnswered)
                     => stoul(mem.m_originalValues.volumeSerial)
                            = [threw |-> FALSE, val |-> last.out.serial]
    /\ (hist.restored /\ IsQuery("adapterQuery") /\ last.real.ret = "NO_ERROR")
           => /\ last.out.adapters = RealAdapters
              /\ (hist.initPid # 0 /\ hist.sourcesAnswered)
                     => mem.m_originalValues.macAddress
                            = FormatMac(last.out.adapters[1].Address, 6)

\* C6: after a restoreOriginalIdentifiers that reported success no
\* interception is installed and the active flag is false.
C6_RestoreRemovesInterceptions ==
    (last.name = "restoreOriginalIdentifiers" /\ last.result = "true")
        => /\ ~mem.detourVolume
           /\ ~mem.detourAdapters
           /\ ~mem.m_currentSpoofed.active

\* C7: cleanup returns true and leaves the system Uninitialized, with the
\* interceptions removed and the captured state discarded: getSpoofingStatus
\* reports active false and applySpoofing cannot succeed.
C7_CleanupLeavesUninitialized ==
    last.name = "cleanup"
        => /\ last.result = "true"
           /\ ~mem.m_initialized
           /\ mem.m_originalValues = EmptyOriginal
           /\ ~mem.m_currentSpoofed.active
           /\ ~GetSpoofingStatus(mem, alive)
           /\ \A identifiers \in IdentifierInputs, commitOk \in BOOLEAN :
                  ~mem.g_spoofer \/ ~ApplySpoofing(mem, modules, identifiers, commitOk).ret
           /\ ~mem.detourVolume
           /\ ~mem.detourAdapters

\* C8: once the process an active spoof was applied for has exited, the
\* status reads false until a new applySpoofing succeeds.
C8_LapsedSpoofStaysInactive ==
    (hist.appliedPid # 0 /\ hist.appliedPid \notin alive)
        => ~GetSpoofingStatus(mem, alive)

\* C9: while a spoof whose volumeSerial is 1 to 8 hex digits is in force, an
\* intercepted volume query returns the value of that string in the serial
\* out-parameter; its return value and the other out-parameters are those of
\* the real query.
C9_SpoofedSerialReturned ==
    (IsQuery("volumeQuery") /\ last.intercepted /\ SpoofInForce
        /\ ValidHex32(hist.appliedSet.volumeSerial))
        => /\ last.wantSerial
                  => last.out.serial = HexValue(hist.appliedSet.volumeSerial)
           /\ last.out.ret = last.real.ret
           /\ last.out.others = last.real.others

\* C9 witness: "DEADBEEF" was applied and an intercepted query whose real
\* call succeeded read 0xDEADBEEF
C9_Witness ==
    /\ IsQuery("volumeQuery")
    /\ last.intercepted
    /\ SpoofInForce
    /\ hist.appliedSet.volumeSerial = HexSerial
    /\ last.wantSerial
    /\ last.real.ret
    /\ last.real.serial = RealVolumeSerial
    /\ last.out.serial = <<13, 14, 10, 13, 11, 14, 14, 15>>

\* C10: while a spoof whose volumeSerial is not 1 to 8 hex digits is applied,
\* an intercepted volume query returns the real serial.
C10_InvalidHexKeepsRealSerial ==
    (IsQuery("volumeQuery") /\ last.intercepted /\ last.wantSerial /\ hist.spoofActive
        /\ ~ValidHex32(hist.appliedSet.volumeSerial))
        => last.out.serial = last.real.serial

\* a hardware address written as 12 hex digits, and its k-th byte (k from 1)
ValidMac12(str) ==
    /\ Len(str) = 12
    /\ \A i \in 1..12 : IsHexDigit(str[i])
MacByte(str, k) == 16 * HexDigitVal(str[2 * k - 1]) + HexDigitVal(str[2 * k])

\* record `out` is record `real` with its first min(6, AddressLength) address
\* bytes replaced by the bytes of mac
SpoofedRecord(out, real, mac) ==
    /\ out.AddressLength = real.AddressLength
    /\ Len(out.Address) = Len(real.Address)
    /\ \A i \in 1..Len(real.Address) :
           out.Address[i] = IF i <= 6 /\ i <= real.AddressLength
                            THEN MacByte(mac, i)
                            ELSE real.Address[i]

\* C11: while a spoof whose macAddress is 12 hex digits is in force, an
\* intercepted adapter enumeration that succeeds returns every record of the
\* list with its first min(6, AddressLength) address bytes spoofed; the other
\* address bytes, the number of records and the return value are the real
\* query's.
C11_SpoofedAddressInEveryRecord ==
    (IsQuery("adapterQuery") /\ last.intercepted /\ SpoofInForce
        /\ ValidMac12(hist.appliedSet.macAddress)
        /\ last.real.ret = "NO_ERROR")
        => /\ last.out.ret = last.real.ret
           /\ Len(last.out.adapters) = Len(last.real.adapters)
           /\ \A k \in 1..Len(last.real.adapters) :
                  SpoofedRecord(last.out.adapters[k], last.real.adapters[k],
                                hist.appliedSet.macAddress)

\* C11 witness: "AABBCCDDEEFF" was applied; the second record (4 address
\* bytes) reads AA BB CC DD and the third (8 bytes) keeps its bytes 7 and 8
C11_Witness ==
    /\ IsQuery("adapterQuery")
    /\ last.intercepted
    /\ SpoofInForce
    /\ hist.appliedSet.macAddress = PlainMac
    /\ last.real.adapters = RealAdapters
    /\ last.out.adapters[1].Address = <<170, 187, 204, 221, 238, 255, 0, 0>>
    /\ last.out.adapters[2].Address = <<170, 187, 204, 221, 0, 0, 0, 0>>
    /\ last.out.adapters[3].Address = <<170, 187, 204, 221, 238, 255, 7, 8>>

\* C12: an interception never alters the result code of the real query, and
\* when the real query reports failure every out-parameter, the volume serial
\* included, is as the real query left it.
C12_FailedQueriesUntouched ==
    /\ IsQuery("volumeQuery")
           => /\ last.out.ret = last.real.ret
              /\ ~last.real.ret => last.out = last.real
    /\ IsQuery("adapterQuery")
           => /\ last.out.ret = last.real.ret
              /\ last.real.ret # "NO_ERROR" => last.out = last.real

\* C13: in every reachable state either every selected redirection is
\* installed (the volume query, and the adapter enumeration when iphlpapi.dll
\* is present) or none is, also after a transaction that failed.
C13_AllOrNothing ==
    mem.detourAdapters = (mem.detourVolume /\ modules.iphlpapi)

\* C13 witness: both entry points resolve, the commit of an installation
\* failed, and neither redirection is installed
C13_Witness ==
    /\ last.name = "applySpoofing"
    /\ last.result = "false"
    /\ hist.initPid # 0
    /\ modules.volumeEntry
    /\ modules.iphlpapi
    /\ mem.g_originalGetAdaptersInfo
    /\ ~mem.detourVolume
    /\ ~mem.detourAdapters

\* C14: initializeForProcess(pid) on a controller already initialized for pid
\* returns true and changes nothing: the Original set is not captured again,
\* and the spoofed set, its active flag, the target pid and the interceptions
\* are as before the call, whatever the identity sources would answer.
C14_ReinitializeSamePidIsNoOp ==
    [][/\ hist.initPid # 0
           => \A realOk \in BOOLEAN, ub \in UBChoices(mem) :
                  InitializeForProcess(mem, alive, hist.initPid, realOk, realOk, ub)
                      = [mem |-> mem, ret |-> TRUE, crash |-> FALSE]
       /\ (/\ last'.name = "initializeForProcess"
           /\ ~last'.crash
           /\ hist.initPid # 0
           /\ last'.processId = hist.initPid)
           => /\ last'.result = "true"
              /\ mem' = mem
              /\ hist' = hist]_vars

\* C14 witness: initializeForProcess(1) was called again while a spoof applied
\* under pid 1 is active and intercepted; the Original serial is still the
\* real one (a new capture would have read "DEADBEEF")
C14_Witness ==
    /\ last.name = "initializeForProcess"
    /\ ~last.crash
    /\ last.processId = 1
    /\ last.result = "true"
    /\ alive = Pids
    /\ mem.detourVolume
    /\ mem.m_currentSpoofed.active
    /\ mem.m_currentSpoofed.processId = 1
    /\ mem.m_currentSpoofed.volumeSerial = HexSerial
    /\ mem.m_originalValues.volumeSerial = FormatHexDword(RealVolumeSerial)

\* C15: the pid stamped on an active stored spoofed set is the pid given to
\* the most recent initializeForProcess, and the set is reported active only
\* for the pid it was applied under.
C15_OwnerIsLatestInitializedPid ==
    (mem.g_spoofer /\ mem.m_currentSpoofed.active)
        => /\ mem.m_currentSpoofed.processId = hist.initPid
           /\ mem.m_currentSpoofed.processId = mem.m_targetProcessId
           /\ hist.appliedPid = hist.initPid

\* C16: when applySpoofing on an initialized controller fails because the
\* installation failed, the stored set is inactive, the status reads false
\* and no interception is installed.
C16_FailedInstallLeavesNothing ==
    (last.name = "applySpoofing" /\ last.result = "false" /\ hist.initPid # 0)
        => /\ ~mem.m_currentSpoofed.active
           /\ ~GetSpoofingStatus(mem, alive)
           /\ ~mem.detourVolume
           /\ ~mem.detourAdapters

\* C17: the Original set holds the machine's real values whenever the real
\* identity sources answered during its capture, also when the capture
\* happened while a spoof was active and intercepted.
C17_OriginalSetHoldsRealValues ==
    (mem.g_spoofer /\ mem.m_initialized /\ hist.sourcesAnswered)
        => /\ mem.m_originalValues.volumeSerial = FormatHexDword(RealVolumeSerial)
           /\ mem.m_originalValues.macAddress = FormatMac(RealAdapters[1].Address, 6)

\* C18: an installation (InstallHooks on a controller whose hooks are not
\* installed) fails exactly when the volume entry point does not resolve or
\* the commit fails; with iphlpapi.dll absent it succeeds with the volume
\* redirection alone, and adapter enumerations return the real values.
C18_InstallFailsIffVolumeOrCommit ==
    /\ (mem.g_spoofer /\ ~mem.m_hooksInstalled)
           => \A commitOk \in BOOLEAN :
                  InstallHooks(mem, modules, commitOk).ret
                      = (modules.volumeEntry /\ commitOk)
    /\ (last.name = "applySpoofing" /\ last.result = "true")
           => /\ modules.volumeEntry
              /\ mem.detourVolume
              /\ mem.detourAdapters = modules.iphlpapi
    /\ (~modules.iphlpapi /\ IsQuery("adapterQuery"))
           => /\ ~last.intercepted
              /\ last.out = last.real

\* C18 witness: iphlpapi.dll is absent, applySpoofing with a hardware address
\* succeeded, the volume redirection is installed, and an adapter enumeration
\* in the host returned the real list
C18_Witness ==
    /\ IsQuery("adapterQuery")
    /\ last.process = HostPid
    /\ ~modules.iphlpapi
    /\ SpoofInForce
    /\ hist.appliedSet.macAddress = PlainMac
    /\ mem.detourVolume
    /\ ~mem.detourAdapters
    /\ last.real.ret = "NO_ERROR"
    /\ last.out.adapters = RealAdapters

\* C19: the copy of the spoofed set a handler works from equals, member for
\* member, a complete set: the one stored before an applySpoofing running
\* beside the copy, or one stored by it, never a mixture of the two.
C19_SnapshotIsCompleteSet ==
    (cb.pc = "write" /\ ~cb.freed) => cb.current \in cb.allowed

\* C20: a handler that overwrote an out-parameter did so from a copy whose
\* own active flag is true, and the stored set was active at the moment the
\* value written was loaded from it.
C20_WritesOnlyFromActiveSnapshot ==
    (cb.pc = "return" /\ cb.wrote /\ ~cb.freed)
        => /\ cb.current.active
           /\ cb.activeAtRead

\* the text of address byte i (from 0) is two hex digits
HexPair(str, i) == IsHexDigit(str[2 * i + 1]) /\ IsHexDigit(str[2 * i + 2])

\* converting the text of address byte i reports a failure: no hex digit can
\* be read from it, with or without leading white space or a sign
DecodeFails(str, i) ==
    /\ ~IsHexDigit(str[2 * i + 1])
    /\ \/ ~(IsSpace(str[2 * i + 1]) \/ str[2 * i + 1] \in {"+", "-"})
       \/ ~IsHexDigit(str[2 * i + 2])

\* the first of the address bytes 0..n-1 that is not two hex digits, n if none
FirstBadByte(str, n) ==
    IF \E i \in 0..(n - 1) : ~HexPair(str, i)
    THEN CHOOSE i \in 0..(n - 1) :
             ~HexPair(str, i) /\ \A j \in 0..(i - 1) : HexPair(str, j)
    ELSE n

\* record `out` is record `real` with its address bytes 0..k-1 replaced by the
\* bytes of mac and every other byte kept
SpoofedUpTo(out, real, mac, k) ==
    /\ out.AddressLength = real.AddressLength
    /\ Len(out.Address) = Len(real.Address)
    /\ \A i \in 1..Len(real.Address) :
           out.Address[i] = IF i <= k THEN MacByte(mac, i) ELSE real.Address[i]

\* the number of address bytes the handler visits in a record
Visited(real) == IF real.AddressLength < 6 THEN real.AddressLength ELSE 6

\* C21: in an intercepted adapter enumeration that succeeds while a spoof with
\* a macAddress of at least 12 characters is in force, a record for which
\* converting byte k fails (the bytes before k being two hex digits each) has
\* its bytes 0..k-1 spoofed and its bytes from k on real, and so has every
\* later record: the list keeps its length and each record follows the rule.
C21_FailedByteEndsRecordOnly ==
    (IsQuery("adapterQuery") /\ last.intercepted /\ SpoofInForce
        /\ Len(hist.appliedSet.macAddress) >= 12
        /\ last.real.ret = "NO_ERROR")
        => /\ Len(last.out.adapters) = Len(last.real.adapters)
           /\ \A r \in 1..Len(last.real.adapters) :
                  (/\ FirstBadByte(hist.appliedSet.macAddress,
                                   Visited(last.real.adapters[r]))
                          < Visited(last.real.adapters[r])
                   /\ DecodeFails(hist.appliedSet.macAddress,
                                  FirstBadByte(hist.appliedSet.macAddress,
                                               Visited(last.real.adapters[r]))))
                      => SpoofedUpTo(last.out.adapters[r], last.real.adapters[r],
                                     hist.appliedSet.macAddress,
                                     FirstBadByte(hist.appliedSet.macAddress,
                                                  Visited(last.real.adapters[r])))

\* C21 witness: "AA:BB:CC:DD:EE:FF" was applied; converting byte 1 (":B")
\* fails in the first record, which reads AA followed by its real bytes, and
\* the second and third records were walked and read the same way
C21_Witness ==
    /\ IsQuery("adapterQuery")
    /\ last.intercepted
    /\ SpoofInForce
    /\ hist.appliedSet.macAddress = ColonMac
    /\ DecodeFails(ColonMac, 1)
    /\ last.real.adapters = RealAdapters
    /\ last.out.adapters[1].Address = <<170, 27, 33, 60, 77, 94, 0, 0>>
    /\ last.out.adapters[2].Address = <<170, 32, 48, 64, 0, 0, 0, 0>>
    /\ last.out.adapters[3].Address = <<170, 2, 3, 4, 5, 6, 7, 8>>

\* C22: in every state between two controller operations, a stored set with
\* active = TRUE means the interceptions are installed: the volume query is
\* redirected, the adapter enumeration is redirected when iphlpapi.dll is
\* loaded, the controller's installed flag says so too, and the handlers'
\* instance pointer is the controller.  isSpoofingActive never reads true
\* while the volume query is not redirected.
C22_ActiveImpliesInstalled ==
    /\ (mem.g_spoofer /\ mem.m_currentSpoofed.active)
           => /\ mem.detourVolume
              /\ mem.m_hooksInstalled
              /\ mem.detourAdapters = modules.iphlpapi
              /\ mem.g_spooferInstance = "this"
    /\ GetSpoofingStatus(mem, alive) => mem.detourVolume

\* C22 witness: applySpoofing has just succeeded for a live owner: the stored
\* set is active, isSpoofingActive reads true, the volume query is redirected
\* and the installed flag is set
C22_Witness ==
    /\ last.name = "applySpoofing"
    /\ last.result = "true"
    /\ mem.g_spoofer
    /\ mem.m_currentSpoofed.active
    /\ GetSpoofingStatus(mem, alive)
    /\ mem.detourVolume
    /\ mem.m_hooksInstalled
    /\ mem.g_spooferInstance = "this"

\* the textual form XX:XX:XX:XX:XX:XX
ColonForm(str) ==
    /\ Len(str) = 17
    /\ \A i \in 1..17 : IF i % 3 = 0 THEN str[i] = ":" ELSE IsHexDigit(str[i])
\* byte k (from 1) of an address in that form
ColonByte(str, k) == 16 * HexDigitVal(str[3 * k - 2]) + HexDigitVal(str[3 * k - 1])

\* C23: while a spoof whose macAddress has the form XX:XX:XX:XX:XX:XX, as
\* GenerateRandomMac writes it, is in force, an intercepted adapter
\* enumeration that succeeds returns the six bytes the string names in every
\* record of address length 6.
C23_ColonFormFullyApplied ==
    (IsQuery("adapterQuery") /\ last.intercepted /\ SpoofInForce
        /\ ColonForm(hist.appliedSet.macAddress)
        /\ hist.appliedSet.macAddress
               = GenerateRandomMac([k \in 1..6 |->
                                       ColonByte(hist.appliedSet.macAddress, k)])
        /\ last.real.ret = "NO_ERROR")
        => \A r \in 1..Len(last.out.adapters) :
               last.out.adapters[r].AddressLength = 6
                   => \A k \in 1..6 :
                          last.out.adapters[r].Address[k]
                              = ColonByte(hist.appliedSet.macAddress, k)

\* C24: whatever the interleaving of a handler with restoreOriginalValues or
\* cleanup, failing removals and the host layer's destruction of the
\* controller included, no handler reads a member of a controller instance
\* that has been destroyed.
C24_NoCallbackReadsDiscarded == ~cb.freed

====
